---- MODULE Spec2Model ----
(***************************************************************************)
(* Dulmage-Mendelsohn decomposition of a bipartite graph given as an       *)
(* n x m matrix and a matching (modules/dulmage_mendelsohn_decomposition   *)
(* and modules/strongly_connected_components).                             *)
(*                                                                         *)
(* Conventions.  Python lists are sequences (1-based here, so the Python   *)
(* element l[i] is l[i+1]); Python sets are sets; row and column ids are   *)
(* 0-based as in the source.  A numpy matrix is a record                   *)
(* [shape |-> <<n, m>>, a |-> entries] with entries indexed by <<r, c>>.   *)
(* None is the record NoneValue.                                           *)
(***************************************************************************)
EXTENDS Integers, Sequences, FiniteSets, TLC

VARIABLES
    matrix,     \* the matrix both DM instances and the SCC instance are built on
    matching,   \* the matching (list of <<row, col>>) they are built on
    dm,         \* dm[i]: fields decomposition, has_v0, has_vinf of DM instance i
    scc,        \* the mutable fields of a StronglyConnectedComponents instance
    console,    \* what the last print_summary / print_compact call did
    returned    \* the value the last call of a private method returned

vars == <<matrix, matching, dm, scc, console, returned>>

\* Largest number of vertices (rows plus columns) of an input graph.
MaxVertices == 5

Instances == {1, 2}

(***************************************************************************)
(* Python built-ins                                                        *)
(***************************************************************************)
range(k) == 0 .. (k - 1)

\* A call evaluates its arguments before the body runs: Call_k(Op, a1, ..., ak)
\* is Op applied to the values of a1, ..., ak.
Call2(Op(_, _), a, b) == CHOOSE r \in {Op(v, w) : v \in {a}, w \in {b}} : TRUE

Call3(Op(_, _, _), a, b, c) ==
    CHOOSE r \in {Op(v, w, x) : v \in {a}, w \in {b}, x \in {c}} : TRUE

Call4(Op(_, _, _, _), a, b, c, d) ==
    CHOOSE r \in {Op(v, w, x, y) : v \in {a}, w \in {b}, x \in {c}, y \in {d}} : TRUE

\* min that returns its first argument
min_first(a, b) == a

\* min(a, b)
min(a, b) == IF a <= b THEN a ELSE b

\* sorted(list(S)) for a set S of integers
sorted(S) ==
    [i \in 1 .. Cardinality(S) |->
        CHOOSE x \in S : Cardinality({y \in S : y < x}) = i - 1]

\* the orders list(S) may enumerate a set S in
ListsOf(S) ==
    {l \in [1 .. Cardinality(S) -> S] : \A i, j \in DOMAIN l : l[i] = l[j] => i = j}

Elems(l) == {l[i] : i \in DOMAIN l}

\* x in l, for a list l
InList(x, l) == \E i \in DOMAIN l : l[i] = x

NoneValue == [isNone |-> TRUE, blocks |-> <<>>]

SomeList(l) == [isNone |-> FALSE, blocks |-> l]

(***************************************************************************)
(* DulmageMendelsohnDecomposition.__init__                                 *)
(***************************************************************************)
dM_rows(mt) == {mt[i][1] : i \in DOMAIN mt}

\* dM_cols taking the rows of the pairs: set(r for r, _ in matching)
dM_cols_from_rows(mt) == {mt[i][1] : i \in DOMAIN mt}

dM_cols(mt) == {mt[i][2] : i \in DOMAIN mt}

NewDM == [decomposition |-> NoneValue, has_v0 |-> FALSE, has_vinf |-> FALSE]

(***************************************************************************)
(* _find_Vinf: the while loop over the stack, the for loop over the        *)
(* columns c and the inner for loop over the matching.                     *)
(***************************************************************************)
\* VinfPush comparing the row of the pair with c: if r == c and ...
VinfPushRowCompared(mt, c, vinf_rows, stack) ==
    stack \o SelectSeq([i \in DOMAIN mt |-> IF mt[i][1] = c /\ mt[i][1] \notin vinf_rows
                                             THEN mt[i][1] ELSE -1],
                       LAMBDA x : x # -1)

\* for r, mc in self.matching: if mc == c and r not in vinf_rows: stack.append(r)
VinfPush(mt, c, vinf_rows, stack) ==
    stack \o SelectSeq([i \in DOMAIN mt |-> IF mt[i][2] = c /\ mt[i][1] \notin vinf_rows
                                             THEN mt[i][1] ELSE -1],
                       LAMBDA x : x # -1)

\* for c in range(self.m), from column c on; the state is <<vinf_cols, stack>>
RECURSIVE VinfCols(_, _, _, _, _, _, _)
VinfCols(mx, mt, v, c, vinf_rows, vinf_cols, stack) ==
    IF c >= mx.shape[2] THEN <<vinf_cols, stack>>
    ELSE LET next   == c + 1
             cols2  == vinf_cols \cup {c}
             stack2 == VinfPush(mt, c, vinf_rows, stack)
         IN  IF mx.a[<<v, c>>] # 0 /\ ~InList(<<v, c>>, mt) /\ c \notin vinf_cols
             THEN VinfCols(mx, mt, v, next, vinf_rows, cols2, stack2)
             ELSE VinfCols(mx, mt, v, next, vinf_rows, vinf_cols, stack)

\* while stack: v = stack.pop() ...
RECURSIVE VinfLoop(_, _, _, _, _)
VinfLoop(mx, mt, stack, vinf_rows, vinf_cols) ==
    IF stack = <<>> THEN <<vinf_rows, vinf_cols>>
    ELSE LET v      == stack[Len(stack)]
             rest   == SubSeq(stack, 1, Len(stack) - 1)
             rows2  == vinf_rows \cup {v}
             res    == VinfCols(mx, mt, v, 0, rows2, vinf_cols, rest)
             cols2  == res[1]
             stack2 == res[2]
         IN  IF v \notin vinf_rows
             THEN VinfLoop(mx, mt, stack2, rows2, cols2)
             ELSE VinfLoop(mx, mt, rest, vinf_rows, vinf_cols)

\* unmatched_rows without the subtraction of the matched rows
unmatched_rows_all(mx, mt) == range(mx.shape[1])

unmatched_rows(mx, mt) == range(mx.shape[1]) \ dM_rows(mt)

\* find_Vinf with "if stack" for "while stack" at the start: only the seed
\* popped first is expanded
find_Vinf_first_seed(mx, mt, order) ==
    LET seed == IF order = <<>> THEN <<>> ELSE <<order[Len(order)]>>
    IN  VinfLoop(mx, mt, seed, {}, {})

\* order: the list list(unmatched_rows) the stack starts as
find_Vinf(mx, mt, order) == VinfLoop(mx, mt, order, {}, {})

(***************************************************************************)
(* _find_V0: the symmetric traversal from the unmatched columns.           *)
(***************************************************************************)
\* for mr, c2 in self.matching: if mr == r and c2 not in v0_cols: stack.append(c2)
V0Push(mt, r, v0_cols, stack) ==
    stack \o SelectSeq([i \in DOMAIN mt |-> IF mt[i][1] = r /\ mt[i][2] \notin v0_cols
                                             THEN mt[i][2] ELSE -1],
                       LAMBDA x : x # -1)

\* for r in range(self.n), from row r on; the state is <<v0_rows, stack>>
RECURSIVE V0Rows(_, _, _, _, _, _, _)
V0Rows(mx, mt, c, r, v0_rows, v0_cols, stack) ==
    IF r >= mx.shape[1] THEN <<v0_rows, stack>>
    ELSE LET next   == r + 1
             rows2  == v0_rows \cup {r}
             stack2 == V0Push(mt, r, v0_cols, stack)
         IN  IF mx.a[<<r, c>>] # 0 /\ ~InList(<<r, c>>, mt) /\ r \notin v0_rows
             THEN V0Rows(mx, mt, c, next, rows2, v0_cols, stack2)
             ELSE V0Rows(mx, mt, c, next, v0_rows, v0_cols, stack)

RECURSIVE V0Loop(_, _, _, _, _)
V0Loop(mx, mt, stack, v0_rows, v0_cols) ==
    IF stack = <<>> THEN <<v0_rows, v0_cols>>
    ELSE LET c      == stack[Len(stack)]
             rest   == SubSeq(stack, 1, Len(stack) - 1)
             cols2  == v0_cols \cup {c}
             res    == V0Rows(mx, mt, c, 0, v0_rows, cols2, rest)
             rows2  == res[1]
             stack2 == res[2]
         IN  IF c \notin v0_cols
             THEN V0Loop(mx, mt, stack2, rows2, cols2)
             ELSE V0Loop(mx, mt, rest, v0_rows, v0_cols)

\* unmatched_cols without the subtraction of the matched columns
unmatched_cols_all(mx, mt) == range(mx.shape[2])

unmatched_cols(mx, mt) == range(mx.shape[2]) \ dM_cols(mt)

find_V0(mx, mt, order) == V0Loop(mx, mt, order, {}, {})

(***************************************************************************)
(* StronglyConnectedComponents                                             *)
(***************************************************************************)
\* the appends of the first loop of _create_adjacency_list: matching edges,
\* both ways, in the order of valid_edges
RECURSIVE AddMatchingEdges(_, _, _, _)
AddMatchingEdges(adj_list, edges, n, i) ==
    IF i > Len(edges) THEN adj_list
    ELSE LET r  == edges[i][1]
             c  == edges[i][2]
             a1 == [adj_list EXCEPT ![r] = Append(@, c + n)]
             a2 == [a1 EXCEPT ![c + n] = Append(@, r)]
         IN  Call4(AddMatchingEdges, a2, edges, n, i + 1)

\* the appends of the second loop for row r: its entries that are not
\* matching edges, by ascending column
NonMatchingArcs(mx, edges, r) ==
    LET n == mx.shape[1]
        m == mx.shape[2]
    IN  SelectSeq([j \in 1 .. m |-> IF mx.a[<<r, j - 1>>] # 0 /\ ~InList(<<r, j - 1>>, edges)
                                    THEN (j - 1) + n ELSE -1],
                  LAMBDA x : x # -1)

create_adjacency_list(mx, edges) ==
    LET n     == mx.shape[1]
        m     == mx.shape[2]
        empty == [v \in range(n + m) |-> <<>>]
        withM == Call4(AddMatchingEdges, empty, edges, n, 1)
    IN  [v \in range(n + m) |->
            IF v < n THEN withM[v] \o NonMatchingArcs(mx, edges, v) ELSE withM[v]]

\* StronglyConnectedComponents.__init__
NewSCC(mx, edges) ==
    LET n == mx.shape[1]
        m == mx.shape[2]
    IN  [ n              |-> n,
          m              |-> m,
          total_vertices |-> n + m,
          index          |-> 0,
          stack          |-> <<>>,
          on_stack       |-> [v \in range(n + m) |-> FALSE],
          indices        |-> [v \in range(n + m) |-> -1],
          lowlink        |-> [v \in range(n + m) |-> -1],
          sccs           |-> <<>>,
          graph          |-> create_adjacency_list(mx, edges) ]

\* the while True loop of _strong_connect that pops one component off the stack
RECURSIVE PopComponent(_, _, _, _)
PopComponent(self, v, scc_rows, scc_cols) ==
    LET w     == self.stack[Len(self.stack)]
        s1    == [self EXCEPT !.stack = SubSeq(@, 1, Len(@) - 1),
                              !.on_stack[w] = FALSE]
        rows2 == IF w < self.n THEN scc_rows \cup {w} ELSE scc_rows
        cols2 == IF w < self.n THEN scc_cols ELSE scc_cols \cup {w - self.n}
    IN  IF w = v
        THEN IF rows2 # {} \/ cols2 # {}
             THEN [s1 EXCEPT !.sccs = Append(@, <<sorted(rows2), sorted(cols2)>>)]
             ELSE s1
        ELSE Call4(PopComponent, s1, v, rows2, cols2)

RECURSIVE strong_connect(_, _)
RECURSIVE VisitNeighbours(_, _, _)

\* for w in self.graph[v], from the i-th neighbour on
VisitNeighbours(self, v, i) ==
    IF i > Len(self.graph[v]) THEN self
    ELSE LET w == self.graph[v][i]
         IN  IF self.indices[w] = -1
             THEN LET s == Call2(strong_connect, self, w)
                  IN  Call3(VisitNeighbours,
                            [s EXCEPT !.lowlink[v] = min(s.lowlink[v], s.lowlink[w])],
                            v, i + 1)
             ELSE IF self.on_stack[w]
                  THEN Call3(VisitNeighbours,
                             [self EXCEPT !.lowlink[v] = min(self.lowlink[v], self.indices[w])],
                             v, i + 1)
                  ELSE Call3(VisitNeighbours, self, v, i + 1)

strong_connect(self, v) ==
    LET s1 == [self EXCEPT !.indices[v] = self.index,
                           !.lowlink[v] = self.index,
                           !.index      = self.index + 1,
                           !.stack      = Append(@, v),
                           !.on_stack[v] = TRUE]
        s2 == Call3(VisitNeighbours, s1, v, 1)
    IN  IF s2.lowlink[v] = s2.indices[v]
        THEN Call4(PopComponent, s2, v, {}, {})
        ELSE s2

\* the loop of find_sccs over the vertices, from vertex v on
RECURSIVE ConnectAll(_, _)
ConnectAll(self, v) ==
    IF v >= self.total_vertices THEN self
    ELSE IF self.indices[v] = -1
         THEN Call2(ConnectAll, Call2(strong_connect, self, v), v + 1)
         ELSE Call2(ConnectAll, self, v + 1)

\* vertex_to_scc with the columns not shifted by n: vertex_to_scc[c] = scc_id
vertex_to_scc_unshifted(self) ==
    [v \in range(self.total_vertices) |->
        LET ids == {k \in DOMAIN self.sccs :
                       InList(v, self.sccs[k][1]) \/ InList(v, self.sccs[k][2])}
        IN  IF ids = {} THEN -1
            ELSE (CHOOSE k \in ids : \A k2 \in ids : k2 <= k) - 1]

\* vertex_to_scc of _create_scc_graph, as a function on all vertex ids: the
\* last scc_id (0-based) that lists the vertex, -1 for a vertex that is no key
vertex_to_scc(self) ==
    [v \in range(self.total_vertices) |->
        LET ids == {k \in DOMAIN self.sccs :
                       IF v < self.n THEN InList(v, self.sccs[k][1])
                                     ELSE InList(v - self.n, self.sccs[k][2])}
        IN  IF ids = {} THEN -1
            ELSE (CHOOSE k \in ids : \A k2 \in ids : k2 <= k) - 1]

\* create_scc_graph with the edges reversed: scc_graph[u_scc].add(v_scc)
create_scc_graph_reversed(self) ==
    LET v2s == vertex_to_scc(self)
    IN  [i \in range(Len(self.sccs)) |->
            {v2s[v] : v \in {x \in range(self.total_vertices) :
                                /\ v2s[x] # -1
                                /\ v2s[x] # i
                                /\ \E k \in DOMAIN self.graph[x] :
                                      v2s[self.graph[x][k]] = i}}]

\* scc_graph[i]: the SCC ids (0-based positions in self.sccs) that an arc
\* leaving SCC i enters
create_scc_graph(self) ==
    LET v2s == vertex_to_scc(self)
    IN  [i \in range(Len(self.sccs)) |->
            UNION {{v2s[self.graph[v][k]] :
                       k \in {x \in DOMAIN self.graph[v] :
                                 /\ v2s[self.graph[v][x]] # -1
                                 /\ v2s[self.graph[v][x]] # i}}
                   : v \in {x \in range(self.total_vertices) : v2s[x] = i}}]

\* the while queue loop of _topological_sort_sccs.  The for loop over the
\* set scc_graph[u] visits small integers in ascending order.
RECURSIVE KahnLoop(_, _, _, _)
KahnLoop(scc_graph, queue, sorted_sccs, in_degree) ==
    IF queue = <<>> THEN sorted_sccs
    ELSE LET u     == Head(queue)
             deg2  == [v \in DOMAIN in_degree |->
                          IF v \in scc_graph[u] THEN in_degree[v] - 1 ELSE in_degree[v]]
             ready == sorted({v \in scc_graph[u] : deg2[v] = 0})
         IN  Call4(KahnLoop, scc_graph, Tail(queue) \o ready, Append(sorted_sccs, u), deg2)

topological_sort_sccs(self) ==
    LET scc_graph   == create_scc_graph(self)
        ids         == range(Len(self.sccs))
        in_degree   == [v \in ids |-> Cardinality({u \in ids : v \in scc_graph[u]})]
        queue       == sorted({i \in ids : in_degree[i] = 0})
        sorted_sccs == Call4(KahnLoop, scc_graph, queue, <<>>, in_degree)
    IN  [self EXCEPT !.sccs = [k \in 1 .. Len(sorted_sccs) |-> self.sccs[sorted_sccs[k] + 1]]]

\* find_sccs: the instance after the call; the call returns its sccs field
find_sccs(self) == topological_sort_sccs(Call2(ConnectAll, self, 0))

(***************************************************************************)
(* DulmageMendelsohnDecomposition.solve                                    *)
(***************************************************************************)
\* self.matrix[np.ix_(remaining_rows, remaining_cols)]
Submatrix(mx, remaining_rows, remaining_cols) ==
    [shape |-> <<Len(remaining_rows), Len(remaining_cols)>>,
     a     |-> [p \in range(Len(remaining_rows)) \X range(Len(remaining_cols)) |->
                   mx.a[<<remaining_rows[p[1] + 1], remaining_cols[p[2] + 1]>>]]]

\* {old: new for new, old in enumerate(l)}
IndexMap(l) == [old \in Elems(l) |-> (CHOOSE k \in DOMAIN l : l[k] = old) - 1]

\* the loop that builds remaining_matching
RemainingMatching(mt, remove_rows, remove_cols, row_map, col_map) ==
    LET kept == SelectSeq(mt, LAMBDA e : e[1] \notin remove_rows /\ e[2] \notin remove_cols)
    IN  [k \in 1 .. Len(kept) |-> <<row_map[kept[k][1]], col_map[kept[k][2]]>>]

\* Translate without the translation: the blocks keep the compact ids
TranslateOmitted(scc_components, remaining_rows, remaining_cols) == scc_components

\* the SCC blocks translated back to the original row and column ids
Translate(scc_components, remaining_rows, remaining_cols) ==
    [k \in 1 .. Len(scc_components) |->
        << [x \in 1 .. Len(scc_components[k][1]) |->
               remaining_rows[scc_components[k][1][x] + 1]],
           [x \in 1 .. Len(scc_components[k][2]) |->
               remaining_cols[scc_components[k][2][x] + 1]] >>]

\* NonEmptyBlock with "and" for "or": bool(rows and cols)
NonEmptyBlockAnd(rows, cols) == rows # {} /\ cols # {}

\* has_v0 / has_vinf: bool(rows or cols)
NonEmptyBlock(rows, cols) == rows # {} \/ cols # {}

\* the core blocks of solve (lines 75-101)
CoreBlocks(mx, mt, remove_rows, remove_cols) ==
    LET remaining_rows     == sorted(range(mx.shape[1]) \ remove_rows)
        remaining_cols     == sorted(range(mx.shape[2]) \ remove_cols)
        row_map            == IndexMap(remaining_rows)
        col_map            == IndexMap(remaining_cols)
        remaining_matrix   == Submatrix(mx, remaining_rows, remaining_cols)
        remaining_matching == RemainingMatching(mt, remove_rows, remove_cols,
                                                row_map, col_map)
    IN  IF remaining_matching # <<>>
        THEN Translate(find_sccs(NewSCC(remaining_matrix, remaining_matching)).sccs,
                       remaining_rows, remaining_cols)
        ELSE <<>>

\* Assemble with the V-infinity block put before the core blocks
AssembleVinfBeforeCore(has_v0, v0, scc_components, has_vinf, vinf) ==
    (IF has_v0 THEN << <<sorted(v0[1]), sorted(v0[2])>> >> ELSE <<>>)
        \o (IF has_vinf THEN << <<sorted(vinf[1]), sorted(vinf[2])>> >> ELSE <<>>)
        \o scc_components

\* the list solve assembles from the boundary blocks and the core blocks
Assemble(has_v0, v0, scc_components, has_vinf, vinf) ==
    (IF has_v0 THEN << <<sorted(v0[1]), sorted(v0[2])>> >> ELSE <<>>)
        \o scc_components
        \o (IF has_vinf THEN << <<sorted(vinf[1]), sorted(vinf[2])>> >> ELSE <<>>)

\* the fields of the instance after solve(); v0 and vinf are what _find_V0()
\* and _find_Vinf() returned (lines 69-70)
solve(mx, mt, v0, vinf) ==
    LET has_v0   == NonEmptyBlock(v0[1], v0[2])
        has_vinf == NonEmptyBlock(vinf[1], vinf[2])
        core     == CoreBlocks(mx, mt, v0[1] \cup vinf[1], v0[2] \cup vinf[2])
    IN  [decomposition |-> SomeList(Assemble(has_v0, v0, core, has_vinf, vinf)),
         has_v0        |-> has_v0,
         has_vinf      |-> has_vinf]

(***************************************************************************)
(* Inputs                                                                  *)
(***************************************************************************)
Matrices(n, m) ==
    {[shape |-> <<n, m>>, a |-> f] : f \in [range(n) \X range(m) -> {0, 1}]}

\* lists of pairs in range in which no row and no column occurs twice
Matchings(n, m) ==
    UNION {{l \in [1 .. k -> range(n) \X range(m)] :
               \A i, j \in 1 .. k : i # j => l[i][1] # l[j][1] /\ l[i][2] # l[j][2]}
           : k \in 0 .. (IF n <= m THEN n ELSE m)}

InitInput ==
    \E n \in 1 .. MaxVertices - 1 : \E m \in 1 .. MaxVertices - n :
        /\ matrix \in Matrices(n, m)
        /\ matching \in Matchings(n, m)

\* no print operation has been called yet
NothingPrinted == [op |-> "none", raised |-> FALSE, notice |-> FALSE, labels |-> <<>>]

\* no private method has been called yet
NothingReturned == [op |-> "none", value |-> <<>>]

Init ==
    /\ InitInput
    /\ dm = [i \in Instances |-> NewDM]
    /\ scc = NewSCC(matrix, matching)
    /\ console = NothingPrinted
    /\ returned = NothingReturned

(***************************************************************************)
(* Operations                                                              *)
(***************************************************************************)
\* dm_instance.solve().  list(unmatched_cols) and list(unmatched_rows) may
\* enumerate the sets in any order, so the traversals return one of the
\* results the orders lead to.
Solve(i) ==
    \E v0 \in {find_V0(matrix, matching, order) :
                  order \in ListsOf(unmatched_cols(matrix, matching))} :
        \E vinf \in {find_Vinf(matrix, matching, order) :
                        order \in ListsOf(unmatched_rows(matrix, matching))} :
            /\ dm' = [dm EXCEPT ![i] = solve(matrix, matching, v0, vinf)]
            /\ UNCHANGED <<matrix, matching, scc, console, returned>>

\* component_type of block number i (0-based) in print_summary / print_compact:
\* "V0", "Vinf" or the number k of "Vk"
component_type(self, i) ==
    IF i = 0 /\ self.has_v0 THEN "V0"
    ELSE IF i = Len(self.decomposition.blocks) - 1 /\ self.has_vinf THEN "Vinf"
    ELSE IF self.has_v0 THEN ToString(i) ELSE ToString(i + 1)

\* what a print operation does: "raised" is whether it ended with an
\* exception, "notice" whether it printed the not-yet-solved notice, "labels"
\* the block headings it printed
Printed(op, self) ==
    IF self.decomposition.isNone
    THEN [op |-> op, raised |-> FALSE, notice |-> TRUE, labels |-> <<>>]
    ELSE [op |-> op, raised |-> FALSE, notice |-> FALSE,
          labels |-> [k \in 1 .. Len(self.decomposition.blocks) |->
                         component_type(self, k - 1)]]

\* print_summary that changes nothing but raises when nothing is solved yet
print_summary_raising(self) ==
    IF self.decomposition.isNone
    THEN [op |-> "print_summary", raised |-> TRUE, notice |-> FALSE, labels |-> <<>>]
    ELSE Printed("print_summary", self)

print_summary(self) == Printed("print_summary", self)

print_compact(self) == Printed("print_compact", self)

PrintSummary(i) ==
    /\ console' = print_summary(dm[i])
    /\ UNCHANGED <<matrix, matching, dm, scc, returned>>

PrintCompact(i) ==
    /\ console' = print_compact(dm[i])
    /\ UNCHANGED <<matrix, matching, dm, scc, returned>>

\* scc_instance.find_sccs()
FindSccs ==
    /\ scc' = find_sccs(scc)
    /\ UNCHANGED <<matrix, matching, dm, console, returned>>

\* dm_instance._find_Vinf(): list(unmatched_rows) may enumerate the set in any
\* order; the pair <<vinf_rows, vinf_cols>> is returned
FindVinf(i) ==
    \E order \in ListsOf(unmatched_rows(matrix, matching)) :
        /\ returned' = [op |-> "_find_Vinf", value |-> find_Vinf(matrix, matching, order)]
        /\ UNCHANGED <<matrix, matching, dm, scc, console>>

\* dm_instance._find_V0(): the pair <<v0_rows, v0_cols>> is returned
FindV0(i) ==
    \E order \in ListsOf(unmatched_cols(matrix, matching)) :
        /\ returned' = [op |-> "_find_V0", value |-> find_V0(matrix, matching, order)]
        /\ UNCHANGED <<matrix, matching, dm, scc, console>>

\* one instance, solved any number of times
Next == Solve(1)

Spec == Init /\ [][Next]_vars

\* two instances built on the same input, each solved any number of times
NextTwo == \E i \in Instances : Solve(i)

SpecTwo == Init /\ [][NextTwo]_vars

\* one instance, solved and printed in any order
NextPrint == Solve(1) \/ PrintSummary(1) \/ PrintCompact(1)

SpecPrint == Init /\ [][NextPrint]_vars

\* one instance whose two traversals are called in any order
NextFind == FindVinf(1) \/ FindV0(1)

SpecFind == Init /\ [][NextFind]_vars

\* find_sccs taken step by step up to the component graph.
\* StrongConnect(v) is one iteration of the loop of find_sccs: the loop goes
\* through the vertices in ascending order and calls _strong_connect(v) when
\* v has no index yet.
StrongConnect(v) ==
    /\ scc.indices[v] = -1
    /\ \A u \in range(v) : scc.indices[u] # -1
    /\ scc' = strong_connect(scc, v)
    /\ UNCHANGED <<matrix, matching, dm, console, returned>>

\* the call of _create_scc_graph() that _topological_sort_sccs starts with,
\* once the loop of find_sccs has ended
CreateSccGraph ==
    /\ \A v \in range(scc.total_vertices) : scc.indices[v] # -1
    /\ returned' = [op |-> "_create_scc_graph", value |-> create_scc_graph(scc)]
    /\ UNCHANGED <<matrix, matching, dm, scc, console>>

NextGraph == (\E v \in range(scc.total_vertices) : StrongConnect(v)) \/ CreateSccGraph

SpecGraph == Init /\ [][NextGraph]_vars

\* a StronglyConnectedComponents instance built on the input itself
NextSCC == FindSccs

SpecSCC == Init /\ [][NextSCC]_vars

(***************************************************************************)
(* Reference notions the properties are stated with.  They are defined     *)
(* from the input alone, not from the traversals above.                    *)
(***************************************************************************)
Rows == range(matrix.shape[1])

Cols == range(matrix.shape[2])

Solved(i) == ~dm[i].decomposition.isNone

Blocks(i) == dm[i].decomposition.blocks

\* how often row r (column c) is listed in the blocks of a decomposition
RowOccurrences(blocks, r) ==
    Cardinality(UNION {{<<k, x>> : x \in {y \in DOMAIN blocks[k][1] : blocks[k][1][y] = r}}
                       : k \in DOMAIN blocks})

ColOccurrences(blocks, c) ==
    Cardinality(UNION {{<<k, x>> : x \in {y \in DOMAIN blocks[k][2] : blocks[k][2][y] = c}}
                       : k \in DOMAIN blocks})

\* the positions of the boundary blocks and of the core blocks in the output
V0Index(i) == IF dm[i].has_v0 THEN {1} ELSE {}

VinfIndex(i) == IF dm[i].has_vinf THEN {Len(Blocks(i))} ELSE {}

CoreIndex(i) == (DOMAIN Blocks(i)) \ (V0Index(i) \cup VinfIndex(i))

BlockRows(i, k) == Elems(Blocks(i)[k][1])

BlockCols(i, k) == Elems(Blocks(i)[k][2])

MatchedPairs == Elems(matching)

\* the size of a largest matching of the graph that uses rows >= r only and
\* none of the columns in used
RECURSIVE LargestFrom(_, _)
LargestFrom(r, used) ==
    IF r \notin Rows THEN 0
    ELSE LET skip == Call2(LargestFrom, r + 1, used)
             take == {1 + Call2(LargestFrom, r + 1, used \cup {c}) :
                         c \in {x \in Cols \ used : matrix.a[<<r, x>>] # 0}}
         IN  CHOOSE best \in take \cup {skip} : \A x \in take \cup {skip} : x <= best

\* the matching is a maximum matching of the bipartite graph
MatchingIsMaximum ==
    /\ \A e \in MatchedPairs : matrix.a[e] # 0
    /\ Len(matching) = Call2(LargestFrom, 0, {})

\* the matching saturates every row and every column
MatchingIsPerfect == dM_rows(matching) = Rows /\ dM_cols(matching) = Cols

\* Vertices of the directed graph: row r is <<"r", r>>, column c is <<"c", c>>.
Vertices == {<<"r", r>> : r \in Rows} \cup {<<"c", c>> : c \in Cols}

\* u -> v is an arc: a matching edge (either way) or a non-matching nonzero
\* entry (row to column)
Arc(u, v) ==
    \/ u[1] = "r" /\ v[1] = "c"
          /\ (matrix.a[<<u[2], v[2]>>] # 0 \/ InList(<<u[2], v[2]>>, matching))
    \/ u[1] = "c" /\ v[1] = "r" /\ InList(<<v[2], u[2]>>, matching)

\* Successors[u]: the vertices an arc leaving u enters
Successors == [u \in Vertices |-> {v \in Vertices : Arc(u, v)}]

\* the vertices reachable from the set S by directed paths, succ being the
\* successor function
RECURSIVE ReachableFrom(_, _)
ReachableFrom(succ, S) ==
    LET step == S \cup UNION {succ[u] : u \in S}
    IN  IF step = S THEN S ELSE Call2(ReachableFrom, succ, step)

\* Reach[u]: the vertices reachable from u (u itself included)
Reach ==
    LET succ == Successors
    IN  [u \in Vertices |-> Call2(ReachableFrom, succ, {u})]

\* vertex v is listed in block b (a pair of lists)
InBlock(v, b) == IF v[1] = "r" THEN InList(v[2], b[1]) ELSE InList(v[2], b[2])

(***************************************************************************)
(* C1.  Partition completeness for all inputs.                             *)
(***************************************************************************)
\* C1 as stated: after solve, every row index 0..n-1 is listed in exactly one
\* block's row list and every column index 0..m-1 in exactly one block's
\* column list, for every matching that satisfies the input contract.
C1_ExactlyOnceForAllInputs ==
    \A i \in Instances : Solved(i) =>
        /\ \A r \in Rows : RowOccurrences(Blocks(i), r) = 1
        /\ \A c \in Cols : ColOccurrences(Blocks(i), c) = 1

\* C1 as amended: after solve, every row index and every column index is
\* listed in at least one block; an index is listed more than once only when
\* it is listed exactly twice, once in the V0 block (first) and once in the
\* V-infinity block (last).
C1_CoveringAndOnlyBoundaryOverlap ==
    \A i \in Instances : Solved(i) =>
        /\ \A r \in Rows :
              \/ RowOccurrences(Blocks(i), r) = 1
              \/ /\ RowOccurrences(Blocks(i), r) = 2
                 /\ dm[i].has_v0 /\ dm[i].has_vinf
                 /\ r \in BlockRows(i, 1) /\ r \in BlockRows(i, Len(Blocks(i)))
        /\ \A c \in Cols :
              \/ ColOccurrences(Blocks(i), c) = 1
              \/ /\ ColOccurrences(Blocks(i), c) = 2
                 /\ dm[i].has_v0 /\ dm[i].has_vinf
                 /\ c \in BlockCols(i, 1) /\ c \in BlockCols(i, Len(Blocks(i)))

\* a solved instance whose V0 and V-infinity blocks share a row and which has
\* a core block besides
C1_Witness ==
    \E i \in Instances :
        /\ Solved(i)
        /\ \E r \in Rows : RowOccurrences(Blocks(i), r) = 2
        /\ CoreIndex(i) # {}

(***************************************************************************)
(* C2.  With a maximum matching the blocks are disjoint and covering.      *)
(***************************************************************************)
\* C2: when the matching is a maximum matching, the V0 block and the
\* V-infinity block share no row and no column, no core block shares a vertex
\* with a boundary block, and every row index and every column index is
\* listed exactly once.
C2_MaximumMatchingPartition ==
    \A i \in Instances : (Solved(i) /\ MatchingIsMaximum) =>
        /\ \A k1 \in V0Index(i), k2 \in VinfIndex(i) :
              /\ k1 # k2
              /\ BlockRows(i, k1) \cap BlockRows(i, k2) = {}
              /\ BlockCols(i, k1) \cap BlockCols(i, k2) = {}
        /\ \A k1 \in CoreIndex(i), k2 \in V0Index(i) \cup VinfIndex(i) :
              /\ BlockRows(i, k1) \cap BlockRows(i, k2) = {}
              /\ BlockCols(i, k1) \cap BlockCols(i, k2) = {}
        /\ \A r \in Rows : RowOccurrences(Blocks(i), r) = 1
        /\ \A c \in Cols : ColOccurrences(Blocks(i), c) = 1

\* a maximum matching whose decomposition has a V0 block, a core block and a
\* V-infinity block
C2_Witness ==
    \E i \in Instances :
        /\ Solved(i) /\ MatchingIsMaximum
        /\ dm[i].has_v0 /\ dm[i].has_vinf /\ CoreIndex(i) # {}

(***************************************************************************)
(* C3.  Topological consistency of the core blocks.                        *)
(***************************************************************************)
\* C3: for every arc u -> v whose endpoints lie in different core blocks A
\* (holding u) and B (holding v), A is not after B in the output.
C3_TopologicalConsistency ==
    \A i \in Instances : Solved(i) =>
        \A u \in Vertices, v \in Vertices : Arc(u, v) =>
            \A ka \in CoreIndex(i), kb \in CoreIndex(i) :
                (ka # kb /\ InBlock(u, Blocks(i)[ka]) /\ InBlock(v, Blocks(i)[kb]))
                    => ka < kb

\* a decomposition in which an arc joins two different core blocks
C3_Witness ==
    \E i \in Instances :
        /\ Solved(i)
        /\ \E u \in Vertices, v \in Vertices :
              /\ Arc(u, v)
              /\ \E ka \in CoreIndex(i), kb \in CoreIndex(i) :
                    ka # kb /\ InBlock(u, Blocks(i)[ka]) /\ InBlock(v, Blocks(i)[kb])

(***************************************************************************)
(* C4.  Matched pairs stay together.                                       *)
(***************************************************************************)
\* C4: for every matched pair (r, c) and every block of the decomposition,
\* r is in the block's row list iff c is in the block's column list.
C4_MatchedPairsTogether ==
    \A i \in Instances : Solved(i) =>
        \A e \in MatchedPairs : \A k \in DOMAIN Blocks(i) :
            (e[1] \in BlockRows(i, k)) <=> (e[2] \in BlockCols(i, k))

\* a decomposition with a matched pair in the V-infinity block and another
\* in a core block
C4_Witness ==
    \E i \in Instances :
        /\ Solved(i)
        /\ \E e \in MatchedPairs : \E k \in VinfIndex(i) :
              e[1] \in BlockRows(i, k) /\ e[2] \in BlockCols(i, k)
        /\ \E e \in MatchedPairs : \E k \in CoreIndex(i) :
              e[1] \in BlockRows(i, k) /\ e[2] \in BlockCols(i, k)

(***************************************************************************)
(* C5.  Perfect-matching collapse.                                         *)
(***************************************************************************)
\* C5: if n = m and the matching saturates every row and every column, then
\* after solve has_v0 and has_vinf are false and the blocks are exactly the
\* strongly connected components of the graph: every vertex is in a block,
\* and two vertices share a block iff each is reachable from the other.
C5_PerfectMatchingCollapse ==
    \A i \in Instances :
        (Solved(i) /\ matrix.shape[1] = matrix.shape[2] /\ MatchingIsPerfect) =>
            /\ ~dm[i].has_v0 /\ ~dm[i].has_vinf
            /\ CoreIndex(i) = DOMAIN Blocks(i)
            /\ \A u \in Vertices : \E k \in DOMAIN Blocks(i) : InBlock(u, Blocks(i)[k])
            /\ LET reach == Reach
               IN  \A u \in Vertices, v \in Vertices :
                      (\E k \in DOMAIN Blocks(i) :
                           InBlock(u, Blocks(i)[k]) /\ InBlock(v, Blocks(i)[k]))
                          <=> (v \in reach[u] /\ u \in reach[v])

\* a perfect matching of a square matrix that decomposes into two core blocks
C5_Witness ==
    \E i \in Instances :
        /\ Solved(i) /\ matrix.shape[1] = matrix.shape[2] /\ MatchingIsPerfect
        /\ Len(Blocks(i)) = 2

(***************************************************************************)
(* C6.  Concrete scenario 2: matrix [[1,0],[1,1]], matching [(1,0)].       *)
(***************************************************************************)
Scenario2 ==
    /\ matrix = [shape |-> <<2, 2>>,
                 a |-> [p \in range(2) \X range(2) |-> IF p = <<0, 1>> THEN 0 ELSE 1]]
    /\ matching = << <<1, 0>> >>

\* C6 as stated: the decomposition is the single V-infinity block
\* [[0,1],[0,1]] and has_v0 is false.
C6_Scenario2SingleVinfBlock ==
    \A i \in Instances : (Scenario2 /\ Solved(i)) =>
        /\ Blocks(i) = << << <<0, 1>>, <<0, 1>> >> >>
        /\ ~dm[i].has_v0
        /\ dm[i].has_vinf

\* C6 as amended: the decomposition is the V0 block [[0,1],[0,1]] followed by
\* the V-infinity block [[0,1],[0,1]], has_v0 and has_vinf are both true, and
\* there is no core block.
C6_Scenario2BothBoundaryBlocks ==
    \A i \in Instances : (Scenario2 /\ Solved(i)) =>
        /\ Blocks(i) = << << <<0, 1>>, <<0, 1>> >>, << <<0, 1>>, <<0, 1>> >> >>
        /\ dm[i].has_v0
        /\ dm[i].has_vinf
        /\ CoreIndex(i) = {}

C6_Witness == \E i \in Instances : Scenario2 /\ Solved(i)

(***************************************************************************)
(* C7.  Isolated unmatched row.                                            *)
(***************************************************************************)
\* row r is absent from the matching and has no nonzero entry
IsolatedUnmatchedRow(r) ==
    /\ r \in Rows \ dM_rows(matching)
    /\ \A c \in Cols : matrix.a[<<r, c>>] = 0

\* C7 as stated: such a row is its own singleton block ([r], []), and that
\* block is the V-infinity block, placed last.
C7_IsolatedRowSingletonBlock ==
    \A i \in Instances : Solved(i) =>
        \A r \in Rows : IsolatedUnmatchedRow(r) =>
            /\ dm[i].has_vinf
            /\ Blocks(i)[Len(Blocks(i))] = << <<r>>, <<>> >>

\* C7 as amended: such a row is listed in the V-infinity block, which is the
\* last block, and in no core block; the V-infinity block is the singleton
\* ([r], []) exactly when r is the only row absent from the matching.
C7_IsolatedRowInLastBlock ==
    \A i \in Instances : Solved(i) =>
        \A r \in Rows : IsolatedUnmatchedRow(r) =>
            /\ dm[i].has_vinf
            /\ r \in BlockRows(i, Len(Blocks(i)))
            /\ \A k \in CoreIndex(i) : r \notin BlockRows(i, k)
            /\ (Blocks(i)[Len(Blocks(i))] = << <<r>>, <<>> >>)
                  <=> (Rows \ dM_rows(matching) = {r})

\* an isolated unmatched row that is alone in the V-infinity block, after a
\* core block
C7_Witness ==
    \E i \in Instances :
        /\ Solved(i)
        /\ CoreIndex(i) # {}
        /\ \E r \in Rows :
              /\ IsolatedUnmatchedRow(r)
              /\ Blocks(i)[Len(Blocks(i))] = << <<r>>, <<>> >>

(***************************************************************************)
(* C8.  Determinism.                                                       *)
(***************************************************************************)
\* C8: two instances built on the same input hold the same decomposition
\* (and flags) once both are solved, and solving an instance again leaves its
\* decomposition as it was, whatever orders the frontiers are popped in.
C8_Determinism ==
    /\ []((Solved(1) /\ Solved(2)) => dm[1] = dm[2])
    /\ [][\A i \in Instances : Solved(i) => dm'[i] = dm[i]]_vars

\* both instances solved on an input with at least two unmatched rows and two
\* unmatched columns, so that the frontiers can be popped in different orders
C8_Witness ==
    /\ Solved(1) /\ Solved(2)
    /\ Cardinality(unmatched_rows(matrix, matching)) >= 2
    /\ Cardinality(unmatched_cols(matrix, matching)) >= 2
    /\ \E e \in Rows \X Cols : matrix.a[e] # 0

(***************************************************************************)
(* C9.  Printing before solve.                                             *)
(***************************************************************************)
\* C9 as stated: a print_summary or print_compact call made before solve
\* ends with an error, and leaves decomposition, has_v0 and has_vinf as they
\* were.
C9_PrintBeforeSolveRaises ==
    [][\A i \in Instances :
          ((PrintSummary(i) \/ PrintCompact(i)) /\ ~Solved(i)) =>
              (console'.raised /\ dm' = dm)]_vars

\* C9 as amended: a print_summary or print_compact call made before solve
\* does not raise: it prints the not-yet-solved notice and no block, returns
\* normally, and leaves decomposition, has_v0 and has_vinf as they were.
C9_PrintBeforeSolveNotice ==
    [][\A i \in Instances :
          ((PrintSummary(i) \/ PrintCompact(i)) /\ ~Solved(i)) =>
              /\ ~console'.raised
              /\ console'.notice
              /\ console'.labels = <<>>
              /\ dm' = dm]_vars

\* print_summary and then print_compact called on an instance not yet solved
C9_Witness ==
    /\ ~Solved(1)
    /\ console.op = "print_compact"
    /\ console.notice

(***************************************************************************)
(* C10.  find_sccs returns the strongly connected components.              *)
(***************************************************************************)
SccCalled == scc.index > 0

\* C10: after find_sccs on an instance built on (matrix, matching), every
\* vertex is listed in exactly one returned block, and two vertices are in
\* the same block iff each is reachable from the other.
C10_SccCorrectness ==
    SccCalled =>
        /\ \A r \in Rows : RowOccurrences(scc.sccs, r) = 1
        /\ \A c \in Cols : ColOccurrences(scc.sccs, c) = 1
        /\ LET reach == Reach
           IN  \A u \in Vertices, v \in Vertices :
                  (\E k \in DOMAIN scc.sccs :
                       InBlock(u, scc.sccs[k]) /\ InBlock(v, scc.sccs[k]))
                      <=> (v \in reach[u] /\ u \in reach[v])

\* find_sccs has returned a component with at least two rows next to a
\* single-vertex component
C10_Witness ==
    /\ SccCalled
    /\ \E k \in DOMAIN scc.sccs : Len(scc.sccs[k][1]) >= 2
    /\ \E k \in DOMAIN scc.sccs : Len(scc.sccs[k][1]) + Len(scc.sccs[k][2]) = 1

(***************************************************************************)
(* C11.  The traversals return the alternating-reachable sets.             *)
(***************************************************************************)
\* a nonzero entry (r, c) that is no pair of the matching
NonMatchingEdge(r, c) == matrix.a[<<r, c>>] # 0 /\ <<r, c>> \notin MatchedPairs

\* the arcs of alternating paths that start at a row: a non-matching edge
\* from its row to its column, a matching edge from its column to its row
VinfSuccessors ==
    [u \in Vertices |->
        {v \in Vertices :
            \/ u[1] = "r" /\ v[1] = "c" /\ NonMatchingEdge(u[2], v[2])
            \/ u[1] = "c" /\ v[1] = "r" /\ <<v[2], u[2]>> \in MatchedPairs}]

\* the arcs of alternating paths that start at a column: a non-matching edge
\* from its column to its row, a matching edge from its row to its column
V0Successors ==
    [u \in Vertices |->
        {v \in Vertices :
            \/ u[1] = "c" /\ v[1] = "r" /\ NonMatchingEdge(v[2], u[2])
            \/ u[1] = "r" /\ v[1] = "c" /\ <<u[2], v[2]>> \in MatchedPairs}]

\* the rows and the columns absent from the matching, as vertices
AbsentRows == {<<"r", r>> : r \in {x \in Rows : \A e \in MatchedPairs : e[1] # x}}

AbsentCols == {<<"c", c>> : c \in {x \in Cols : \A e \in MatchedPairs : e[2] # x}}

\* a set of vertices as the pair <<set of rows, set of columns>>
RowsAndCols(S) == <<{v[2] : v \in {x \in S : x[1] = "r"}},
                    {v[2] : v \in {x \in S : x[1] = "c"}}>>

\* C11: _find_Vinf returns exactly the rows and columns reachable from the
\* rows absent from the matching by alternating paths (non-matching edge
\* row->col, matching edge col->row), and _find_V0 exactly those reachable
\* from the columns absent from the matching (non-matching edge col->row,
\* matching edge row->col), whatever order the frontier is popped in.
C11_AlternatingReachability ==
    /\ returned.op = "_find_Vinf" =>
          LET succ == VinfSuccessors
          IN  returned.value = RowsAndCols(Call2(ReachableFrom, succ, AbsentRows))
    /\ returned.op = "_find_V0" =>
          LET succ == V0Successors
          IN  returned.value = RowsAndCols(Call2(ReachableFrom, succ, AbsentCols))

\* _find_V0, seeded with at least two absent columns, has returned at least
\* two rows and a column that is not absent, reached across a matching edge
C11_Witness ==
    /\ returned.op = "_find_V0"
    /\ Cardinality(AbsentCols) >= 2
    /\ Cardinality(returned.value[1]) >= 2
    /\ Cardinality(returned.value[2]) >= 3
    /\ \E c \in Cols : c \in returned.value[2] /\ <<"c", c>> \notin AbsentCols

(***************************************************************************)
(* C12.  Direction of the edges of the component graph.                    *)
(***************************************************************************)
\* the edges <<i, j>> of the component graph _create_scc_graph returned
GraphEdges ==
    UNION {{<<i, j>> : j \in returned.value[i]} : i \in DOMAIN returned.value}

====
